---- MODULE Spec2Model ----
(***************************************************************************)
(* DMS fitness explorer: the in-memory categorical index and aggregation   *)
(* engine (js/data-processor.js) and the state coordinator (js/app.js).    *)
(*                                                                         *)
(* JavaScript strings are sequences of one-character strings, so that      *)
(* indexing, splitting and percent-coding are computed character by        *)
(* character.  A JavaScript Set is a duplicate-free sequence in insertion  *)
(* order.  Rows are referred to by their identifier (index in sequences).  *)
(***************************************************************************)
EXTENDS Integers, Sequences, FiniteSets, TLC

VARIABLES
    rawData,          \* results.data handed to DataProcessor.init
    sequences,        \* DataProcessor: retained rows
    indexByPosition,  \* DataProcessor: pos -> (value -> identifiers)
    aasAtPosition,    \* DataProcessor: pos -> values in AA_ORDER order
    totalCount,       \* DataProcessor
    maxSlope,         \* DataProcessor
    minSlope,         \* DataProcessor
    state,            \* App.state
    listeners,        \* App: subscribers in subscription order
    hash,             \* window.location.hash without the leading '#'
    phase,            \* position of the page in its load sequence
    calls,            \* what the handler that ran last invoked, in order
    last,             \* the handler that ran last
    hist,             \* the arguments of the latest consecutive setFilter calls
    query,            \* the DataProcessor query evaluated last
    stack,            \* App: the mutators whose notify is running, innermost last
    viewer,           \* VizStructure: whether the viewer has been created
    isLoaded,         \* VizStructure
    colorDebounceTimer, \* VizStructure: id of the timer set last, 0 for null
    timers,           \* window: the pending timers of updateColors
    loads,            \* the viewer: loadMVS calls that have not settled
    displayed,        \* the viewer: the colors it shows
    updates,          \* number of updateColors calls so far
    reloads           \* the loadStructureWithColors calls of the timers, in order

dpVars == <<sequences, indexByPosition, aasAtPosition, totalCount, maxSlope, minSlope>>
appVars == <<state, listeners, hash, calls, last, hist>>
vizVars == <<viewer, isLoaded, colorDebounceTimer, timers, loads, displayed, updates, reloads>>
vars == <<rawData, sequences, indexByPosition, aasAtPosition, totalCount,
          maxSlope, minSlope, state, listeners, hash, phase, calls, last, hist, query,
          stack, viewer, isLoaded, colorDebounceTimer, timers, loads, displayed, updates,
          reloads>>

(***************************************************************************)
(* Bounds of the model.                                                    *)
(***************************************************************************)
MaxRows == 4
MaxN == 2

(***************************************************************************)
(* JavaScript values.                                                      *)
(***************************************************************************)
\* null, as the value of a string-valued slot (no string has this shape)
NULL == <<"null">>
\* undefined, the result of indexing a string past its end
UNDEFINED == <<"undefined">>
\* null, as the value of state.filteredIndices ("all rows")
NULLSET == <<-1>>
\* the literal 'undefined' that undefined becomes as a property key
STR_undefined == <<"u", "n", "d", "e", "f", "i", "n", "e", "d">>
EMPTY == <<>>

Range(s) == {s[i] : i \in 1..Len(s)}
Has(set, x) == \E i \in 1..Len(set) : set[i] = x

\* str[pos] for a 0-based pos
CharAt(str, pos) == IF pos + 1 <= Len(str) THEN <<str[pos + 1]>> ELSE UNDEFINED
\* v || ''
OrEmpty(v) == IF v = UNDEFINED \/ v = EMPTY THEN EMPTY ELSE v
\* ToPropertyKey
ToKey(v) == IF v = UNDEFINED THEN STR_undefined ELSE v

\* Array.prototype.slice(start, end) over a 1-based sequence
SliceIndex(len, k) == IF k < 0 THEN (IF len + k < 0 THEN 0 ELSE len + k)
                      ELSE (IF k > len THEN len ELSE k)
Slice(arr, start, end) ==
    LET from == SliceIndex(Len(arr), start)
        to == SliceIndex(Len(arr), end)
    IN IF to <= from THEN <<>> ELSE SubSeq(arr, from + 1, to)
\* Array.prototype.slice(start)
SliceFrom(arr, start) == Slice(arr, start, Len(arr))
Reverse(arr) == [i \in 1..Len(arr) |-> arr[Len(arr) + 1 - i]]

\* Array.prototype.sort(cmp), stable; cmp[a, b] is the comparator's result
RECURSIVE InsertSorted(_, _, _)
InsertSorted(sorted, x, cmp) ==
    IF sorted = <<>> THEN <<x>>
    ELSE IF cmp[x, Head(sorted)] < 0 THEN <<x>> \o sorted
    ELSE <<Head(sorted)>> \o InsertSorted(Tail(sorted), x, cmp)
RECURSIVE StableSort(_, _)
StableSort(arr, cmp) ==
    IF arr = <<>> THEN <<>>
    ELSE InsertSorted(StableSort(SubSeq(arr, 1, Len(arr) - 1), cmp), arr[Len(arr)], cmp)

RECURSIVE SumSeq(_)
SumSeq(s) == IF s = <<>> THEN 0 ELSE Head(s) + SumSeq(Tail(s))

\* Numbers that are not integers: the quotient n / d in lowest terms, the
\* square root of a quotient, the base-2 logarithm of an integer.
Abs(n) == IF n < 0 THEN 0 - n ELSE n
RECURSIVE GCD(_, _)
GCD(a, b) == IF b = 0 THEN a ELSE GCD(b, a % b)
\* n / d for d > 0
Frac(n, d) ==
    LET g == GCD(Abs(n), d)
    IN [num |-> n \div g, den |-> d \div g]
FracSub(x, y) == Frac(x.num * y.den - y.num * x.den, x.den * y.den)
FracMul(x, y) == Frac(x.num * y.num, x.den * y.den)
\* Math.max(0, x)
FracMax0(x) == IF x.num < 0 THEN Frac(0, 1) ELSE x
IsSquare(n) == \E r \in 0..n : r * r = n
Root(n) == CHOOSE r \in 0..n : r * r = n
\* Math.sqrt(x) for x >= 0: a quotient when x is one of squares
Sqrt(x) ==
    IF IsSquare(x.num) /\ IsSquare(x.den)
    THEN Frac(Root(x.num), Root(x.den))
    ELSE [sqrt |-> x]
\* Math.log2(k)
Log2(k) == [log2 |-> k]

(***************************************************************************)
(* DataProcessor constants.                                                *)
(***************************************************************************)
VARIABLE_POSITIONS == <<9, 12, 13, 16>>
Positions == Range(VARIABLE_POSITIONS)

AA_ORDER == << <<"G">>, <<"A">>, <<"V">>, <<"L">>, <<"I">>, <<"M">>,
               <<"F">>, <<"W">>, <<"Y">>,
               <<"S">>, <<"T">>, <<"N">>, <<"Q">>, <<"C">>,
               <<"K">>, <<"R">>, <<"H">>,
               <<"D">>, <<"E">>,
               <<"P">>,
               <<"*">> >>

STOP == <<"*">>
Infinity == 1000000

(***************************************************************************)
(* Raw rows.  A field of a parsed CSV row is a number, a non-numeric       *)
(* string or null (absent).                                                *)
(***************************************************************************)
Num(n) == [k |-> "num", v |-> n]
Absent == [k |-> "null", v |-> 0]
Text == [k |-> "text", v |-> 0]

\* parseFloat / parseInt of a field: [nan, v]
ParseNumber(field) == IF field.k = "num" THEN [nan |-> FALSE, v |-> field.v]
                      ELSE [nan |-> TRUE, v |-> 0]

\* !row['Protein Seq'] || row['Slope'] == null, then isNaN(slope)
RowDropped_seqOnly(row) == row.seq = EMPTY
RowDropped(row) ==
    \/ row.seq = EMPTY
    \/ row.slope.k = "null"
    \/ ParseNumber(row.slope).nan

\* parseInt(row['Rank']) || (i + 1)
RankOf(row, i) ==
    LET r == ParseNumber(row.rank)
    IN IF r.nan \/ r.v = 0 THEN i + 1 ELSE r.v

\* the record pushed onto sequences for raw row i (0-based)
MakeRow(row, i) ==
    LET p9 == OrEmpty(CharAt(row.seq, 9))
        p12 == OrEmpty(CharAt(row.seq, 12))
        p13 == OrEmpty(CharAt(row.seq, 13))
        p16 == OrEmpty(CharAt(row.seq, 16))
    IN [p9 |-> p9, p12 |-> p12, p13 |-> p13, p16 |-> p16,
        slope |-> ParseNumber(row.slope).v,
        rank |-> RankOf(row, i),
        seq |-> row.seq,
        hasStop |-> (p9 = STOP \/ p12 = STOP \/ p13 = STOP \/ p16 = STOP)]

\* const idx = sequences.length
RowIdx_raw(seqs, i) == i
RowIdx(seqs, i) == Len(seqs)

\* indexByPosition[pos][aa].push(idx), creating the bucket when missing
PushIndex(bucketsOfPos, aa, idx) ==
    IF aa \in DOMAIN bucketsOfPos
    THEN [bucketsOfPos EXCEPT ![aa] = Append(@, idx)]
    ELSE (aa :> <<idx>>) @@ bucketsOfPos

\* the loop over rawData of init, from raw row i (0-based) on
RECURSIVE ParseRows(_, _, _)
ParseRows(raw, i, acc) ==
    IF i >= Len(raw) THEN acc
    ELSE LET row == raw[i + 1] IN
         IF RowDropped(row) THEN ParseRows(raw, i + 1, acc)
         ELSE LET idx == RowIdx(acc.sequences, i)
                  r == MakeRow(row, i)
              IN ParseRows(raw, i + 1,
                   [sequences |-> Append(acc.sequences, r),
                    maxSlope |-> IF r.slope > acc.maxSlope THEN r.slope ELSE acc.maxSlope,
                    minSlope |-> IF r.slope < acc.minSlope THEN r.slope ELSE acc.minSlope,
                    indexByPosition |->
                        [pos \in Positions |->
                            PushIndex(acc.indexByPosition[pos],
                                      ToKey(CharAt(row.seq, pos)), idx)]])

\* aasAtPosition[pos] = AA_ORDER.filter(aa => aas.includes(aa))
SortedAAs(bucketsOfPos) == SelectSeq(AA_ORDER, LAMBDA aa : aa \in DOMAIN bucketsOfPos)

\* DataProcessor.init(rawData); maxSlope and minSlope are not reset
DPInit(raw, maxSlope0, minSlope0) ==
    LET acc == ParseRows(raw, 0,
                 [sequences |-> <<>>,
                  maxSlope |-> maxSlope0,
                  minSlope |-> minSlope0,
                  indexByPosition |-> [pos \in Positions |-> <<>>]])
    IN [sequences |-> acc.sequences,
        indexByPosition |-> acc.indexByPosition,
        aasAtPosition |-> [pos \in Positions |-> SortedAAs(acc.indexByPosition[pos])],
        totalCount |-> Len(acc.sequences),
        maxSlope |-> acc.maxSlope,
        minSlope |-> acc.minSlope]

(***************************************************************************)
(* DataProcessor queries.  They read the module state of DataProcessor.    *)
(***************************************************************************)
\* thrown TypeError, as the outcome of a call
TYPE_ERROR == <<-2>>

\* sequences.map((_, i) => i)
AllIndices == [i \in 1..Len(sequences) |-> i - 1]

\* names that every object literal inherits from Object.prototype; a
\* lookup of one of them in a bucket map finds the inherited member
STR_constructor == <<"c", "o", "n", "s", "t", "r", "u", "c", "t", "o", "r">>
ObjectPrototypeKeys == {STR_constructor}

\* the loop of getFilteredIndices from the k-th position on; an inherited
\* member is truthy and not iterable, so that building the set from it throws
RECURSIVE VisitPositions(_, _, _, _)
VisitPositions(order, filters, k, result) ==
    IF k > Len(order) THEN result
    ELSE LET pos == order[k]
             aa == filters[pos]
         IN IF aa = NULL THEN VisitPositions(order, filters, k + 1, result)
            ELSE IF pos \notin DOMAIN indexByPosition THEN TYPE_ERROR
            ELSE IF aa \notin DOMAIN indexByPosition[pos]
                 THEN (IF aa \in ObjectPrototypeKeys THEN TYPE_ERROR ELSE <<>>)
            ELSE LET matching == indexByPosition[pos][aa]
                 IN IF result = NULLSET
                    THEN VisitPositions(order, filters, k + 1, matching)
                    ELSE VisitPositions(order, filters, k + 1,
                                        SelectSeq(matching, LAMBDA idx : Has(result, idx)))

\* for (const pos of VARIABLE_POSITIONS)
FilterLoop(filters, k, result) == VisitPositions(VARIABLE_POSITIONS, filters, k, result)

getFilteredIndices(filters) == FilterLoop(filters, 1, NULLSET)

\* the entry of computeConditionalMarginals for one value: the bucket
\* restricted to filteredIndices
MarginalOf(pos, aa, filteredIndices) ==
    LET aaIndices == indexByPosition[pos][aa]
        kept == SelectSeq(aaIndices,
                    LAMBDA idx : filteredIndices = NULLSET \/ Has(filteredIndices, idx))
        slopes == [i \in 1..Len(kept) |-> sequences[kept[i] + 1].slope]
        ids == 1..Len(slopes)
        count == Len(kept)
        sum == SumSeq(slopes)
        sumSq == SumSeq([i \in ids |-> slopes[i] * slopes[i]])
        values == LET order == StableSort([i \in ids |-> i],
                                  [a \in ids, b \in ids |-> slopes[a] - slopes[b]])
                  IN [i \in ids |-> slopes[order[i]]]
    IN IF count = 0 THEN [aa |-> aa, count |-> 0, sum |-> 0, values |-> <<>>]
       ELSE LET mean == Frac(sum, count)
                variance == FracSub(Frac(sumSq, count), FracMul(mean, mean))
            IN [aa |-> aa,
                count |-> count,
                sum |-> sum,
                values |-> values,
                mean |-> mean,
                median |-> IF count % 2 = 0
                           THEN Frac(values[count \div 2] + values[count \div 2 + 1], 2)
                           ELSE Frac(values[count \div 2 + 1], 1),
                std |-> Sqrt(FracMax0(variance))]

\* const aas = aasAtPosition[pos]
MarginalKeys(pos) == aasAtPosition[pos]

\* computeConditionalMarginals: the entries in insertion order
computeConditionalMarginals(pos, filteredIndices) ==
    LET aas == MarginalKeys(pos)
        all == [i \in 1..Len(aas) |-> MarginalOf(pos, aas[i], filteredIndices)]
    IN SelectSeq(all, LAMBDA e : e.count > 0)

\* computePositionEntropy: per position, the counts and their total that
\* the entropy is the function of, and the number of keys of the marginals
computePositionEntropy(filteredIndices) ==
    [pos \in Positions |->
        LET marginals == computeConditionalMarginals(pos, filteredIndices)
            counts == [i \in 1..Len(marginals) |-> marginals[i].count]
        IN [entropy |-> [counts |-> counts, totalCount |-> SumSeq(counts)],
            maxEntropy |-> Log2(Len(marginals)),
            numAAs |-> Len(marginals)]]

\* s['p' + pos]
StoredValue(s, pos) ==
    CASE pos = 9 -> s.p9 [] pos = 12 -> s.p12 [] pos = 13 -> s.p13 [] pos = 16 -> s.p16

\* const key = aaA + '|' + aaB
PairKey(aaA, aaB) == aaA \o <<"|">> \o aaB

\* the accumulator of computePairwiseStats after the rows from the k-th
\* on: entries [aaA, aaB, sum, count] in the order their keys were created
RECURSIVE Accumulate(_, _, _, _, _)
Accumulate(ids, k, posA, posB, accumulator) ==
    IF k > Len(ids) THEN accumulator
    ELSE LET s == sequences[ids[k] + 1]
             aaA == StoredValue(s, posA)
             aaB == StoredValue(s, posB)
             Same(e) == PairKey(e.aaA, e.aaB) = PairKey(aaA, aaB)
             next == IF \E i \in 1..Len(accumulator) : Same(accumulator[i])
                     THEN [i \in 1..Len(accumulator) |->
                             IF Same(accumulator[i])
                             THEN [accumulator[i] EXCEPT !.sum = @ + s.slope,
                                                         !.count = @ + 1]
                             ELSE accumulator[i]]
                     ELSE Append(accumulator,
                                 [aaA |-> aaA, aaB |-> aaB, sum |-> s.slope, count |-> 1])
         IN Accumulate(ids, k + 1, posA, posB, next)

\* computePairwiseStats: the entries in insertion order
computePairwiseStats_sum(posA, posB, filteredIndices) ==
    LET allIndices == IF filteredIndices # NULLSET THEN filteredIndices ELSE AllIndices
        accumulator == Accumulate(allIndices, 1, posA, posB, <<>>)
    IN [i \in 1..Len(accumulator) |->
          [aaA |-> accumulator[i].aaA,
           aaB |-> accumulator[i].aaB,
           mean |-> Frac(accumulator[i].sum, 1),
           count |-> accumulator[i].count]]
computePairwiseStats(posA, posB, filteredIndices) ==
    LET allIndices == IF filteredIndices # NULLSET THEN filteredIndices ELSE AllIndices
        accumulator == Accumulate(allIndices, 1, posA, posB, <<>>)
    IN [i \in 1..Len(accumulator) |->
          [aaA |-> accumulator[i].aaA,
           aaB |-> accumulator[i].aaB,
           mean |-> Frac(accumulator[i].sum, accumulator[i].count),
           count |-> accumulator[i].count]]

\* getAllSlopes
getAllSlopes_all(filteredIndices) ==
    [i \in 1..Len(sequences) |-> sequences[i].slope]
getAllSlopes(filteredIndices) ==
    IF filteredIndices # NULLSET
    THEN [i \in 1..Len(filteredIndices) |-> sequences[filteredIndices[i] + 1].slope]
    ELSE [i \in 1..Len(sequences) |-> sequences[i].slope]

\* data.slice(-n).reverse()
BottomOf_unreversed(data, n) == SliceFrom(data, 0 - n)
BottomOf(data, n) == Reverse(SliceFrom(data, 0 - n))

\* data.sort((a, b) => b.slope - a.slope) over row identifiers
SortedBySlopeDesc_tiesReversed(data) ==
    StableSort(Reverse(data), [a \in Range(data), b \in Range(data) |->
                                 sequences[b + 1].slope - sequences[a + 1].slope])
SortedBySlopeDesc(data) ==
    StableSort(data, [a \in Range(data), b \in Range(data) |->
                        sequences[b + 1].slope - sequences[a + 1].slope])

getTopBottom(n, filteredIndices) ==
    LET data == IF filteredIndices # NULLSET THEN filteredIndices ELSE AllIndices
        sorted == SortedBySlopeDesc(data)
    IN [top |-> Slice(sorted, 0, n), bottom |-> BottomOf(sorted, n)]

SlopesOf(ids) == [i \in 1..Len(ids) |-> sequences[ids[i] + 1].slope]

(***************************************************************************)
(* String functions of the platform used by saveHash and loadHash.         *)
(***************************************************************************)
Digits == <<"0", "1", "2", "3", "4", "5", "6", "7", "8", "9">>
DigitSet == Range(Digits)
DigitVal(c) == (CHOOSE i \in 1..10 : Digits[i] = c) - 1
HexDigits == DigitSet \cup {"A", "B", "C", "D", "E", "F", "a", "b", "c", "d", "e", "f"}
Letters == {"A", "B", "C", "D", "E", "F", "G", "H", "I", "J", "K", "L", "M",
            "N", "O", "P", "Q", "R", "S", "T", "U", "V", "W", "X", "Y", "Z",
            "a", "b", "c", "d", "e", "f", "g", "h", "i", "j", "k", "l", "m",
            "n", "o", "p", "q", "r", "s", "t", "u", "v", "w", "x", "y", "z"}
\* the characters encodeURIComponent leaves alone
Unreserved == Letters \cup DigitSet \cup {"-", "_", ".", "!", "~", "*", "'", "(", ")"}
\* percent codes of the reserved ASCII characters that occur in fragments
Escapes == ("," :> <<"2", "C">>) @@ (":" :> <<"3", "A">>) @@ ("%" :> <<"2", "5">>)
           @@ ("=" :> <<"3", "D">>) @@ ("&" :> <<"2", "6">>) @@ ("+" :> <<"2", "B">>)
           @@ (" " :> <<"2", "0">>) @@ ("#" :> <<"2", "3">>)
UpperHex(c) == CASE c = "a" -> "A" [] c = "b" -> "B" [] c = "c" -> "C"
                 [] c = "d" -> "D" [] c = "e" -> "E" [] c = "f" -> "F"
                 [] OTHER -> c
\* the character a percent code stands for
Unescape(h1, h2) ==
    CHOOSE c \in DOMAIN Escapes : Escapes[c] = <<UpperHex(h1), UpperHex(h2)>>

\* thrown URIError, as the outcome of decodeURIComponent
URI_ERROR == <<"URIError">>

RECURSIVE encodeURIComponent(_)
encodeURIComponent(str) ==
    IF str = <<>> THEN <<>>
    ELSE (IF Head(str) \in Unreserved THEN <<Head(str)>>
          ELSE <<"%">> \o Escapes[Head(str)]) \o encodeURIComponent(Tail(str))

IsEscapeAt(str, i) ==
    /\ str[i] = "%"
    /\ i + 2 <= Len(str)
    /\ str[i + 1] \in HexDigits
    /\ str[i + 2] \in HexDigits

\* percent-decoding of URLSearchParams: a malformed '%' is kept literally
RECURSIVE PercentDecode(_, _)
PercentDecode(str, i) ==
    IF i > Len(str) THEN <<>>
    ELSE IF IsEscapeAt(str, i)
         THEN <<Unescape(str[i + 1], str[i + 2])>> \o PercentDecode(str, i + 3)
         ELSE <<str[i]>> \o PercentDecode(str, i + 1)

\* decodeURIComponent: a malformed '%' throws URIError
decodeURIComponent(str) ==
    IF \E i \in 1..Len(str) : str[i] = "%" /\ ~IsEscapeAt(str, i)
    THEN URI_ERROR
    ELSE PercentDecode(str, 1)

\* index of the first occurrence of character c, 0 when there is none
IndexOf(str, c) ==
    IF \E i \in 1..Len(str) : str[i] = c
    THEN CHOOSE i \in 1..Len(str) : str[i] = c /\ \A j \in 1..(i - 1) : str[j] # c
    ELSE 0

\* String.prototype.split(sep) for a one-character separator
RECURSIVE Split(_, _)
Split(str, sep) ==
    LET i == IndexOf(str, sep)
    IN IF i = 0 THEN <<str>>
       ELSE <<SubSeq(str, 1, i - 1)>> \o Split(SubSeq(str, i + 1, Len(str)), sep)

PlusToSpace(str) == [i \in 1..Len(str) |-> IF str[i] = "+" THEN " " ELSE str[i]]

\* new URLSearchParams(text).get(name): null when no pair has that name
ParamsGet(text, name) ==
    LET body == IF text # <<>> /\ Head(text) = "?" THEN Tail(text) ELSE text
        parts == SelectSeq(Split(body, "&"), LAMBDA part : part # <<>>)
        NameOf(part) == LET i == IndexOf(part, "=")
                        IN PercentDecode(PlusToSpace(
                               IF i = 0 THEN part ELSE SubSeq(part, 1, i - 1)), 1)
        ValueOf(part) == LET i == IndexOf(part, "=")
                         IN PercentDecode(PlusToSpace(
                                IF i = 0 THEN <<>> ELSE SubSeq(part, i + 1, Len(part))), 1)
        named == SelectSeq(parts, LAMBDA part : NameOf(part) = name)
    IN IF named = <<>> THEN NULL ELSE ValueOf(named[1])

\* parseInt(str) of an unsigned decimal prefix: [nan, v]
RECURSIVE DigitsValue(_, _, _)
DigitsValue(str, i, acc) ==
    IF i > Len(str) \/ str[i] \notin DigitSet THEN acc
    ELSE DigitsValue(str, i + 1, 10 * acc + DigitVal(str[i]))
parseInt(str) ==
    IF str = <<>> \/ str[1] \notin DigitSet THEN [nan |-> TRUE, v |-> 0]
    ELSE [nan |-> FALSE, v |-> DigitsValue(str, 1, 0)]

\* String(n) of a non-negative integer
RECURSIVE DecStr(_)
DecStr(n) == IF n < 10 THEN <<Digits[n + 1]>>
             ELSE DecStr(n \div 10) \o <<Digits[(n % 10) + 1]>>

\* Array.prototype.join(sep)
RECURSIVE Join(_, _)
Join(parts, sep) ==
    IF parts = <<>> THEN <<>>
    ELSE IF Len(parts) = 1 THEN parts[1]
    ELSE parts[1] \o <<sep>> \o Join(Tail(parts), sep)

STR_filters == <<"f", "i", "l", "t", "e", "r", "s">>

(***************************************************************************)
(* DataProcessor.getFilteredSequences, over row identifiers.               *)
(***************************************************************************)
LowerCase == <<"a", "b", "c", "d", "e", "f", "g", "h", "i", "j", "k", "l", "m",
               "n", "o", "p", "q", "r", "s", "t", "u", "v", "w", "x", "y", "z">>
UpperCase == <<"A", "B", "C", "D", "E", "F", "G", "H", "I", "J", "K", "L", "M",
               "N", "O", "P", "Q", "R", "S", "T", "U", "V", "W", "X", "Y", "Z">>
\* String.prototype.toUpperCase over ASCII
UpperChar(c) ==
    IF \E i \in 1..Len(LowerCase) : LowerCase[i] = c
    THEN UpperCase[CHOOSE i \in 1..Len(LowerCase) : LowerCase[i] = c]
    ELSE c
toUpperCase(str) == [i \in 1..Len(str) |-> UpperChar(str[i])]

\* String.prototype.includes
Includes(str, sub) ==
    \E i \in 0..(Len(str) - Len(sub)) : SubSeq(str, i + 1, i + Len(sub)) = sub

\* String(n) for an integer
StringOf(n) == IF n < 0 THEN <<"-">> \o DecStr(0 - n) ELSE DecStr(n)

\* the characters of sequences in ascending order of their code units
CodeUnits == <<"*">> \o Digits \o UpperCase \o <<"_">> \o LowerCase
CodeOf(c) == CHOOSE i \in 1..Len(CodeUnits) : CodeUnits[i] = c
\* a < b for strings of at most one character
StringLess(a, b) ==
    IF a = <<>> THEN b # <<>>
    ELSE b # <<>> /\ CodeOf(a[1]) < CodeOf(b[1])

\* the filter callback of the search, q being the upper-cased query
SearchKeeps(s, q) ==
    \/ Includes(s.p9 \o s.p12 \o s.p13 \o s.p16, q)
    \/ Includes(s.seq, q)
    \/ Includes(StringOf(s.rank), q)

PositionColumns == {"p9", "p12", "p13", "p16"}

\* the comparator handed to result.sort, over the identifiers in ids
SortComparator(ids, sortBy, dir) ==
    [a \in ids, b \in ids |->
        LET ra == sequences[a + 1]
            rb == sequences[b + 1]
        IN IF sortBy = "slope" THEN (ra.slope - rb.slope) * dir
           ELSE IF sortBy = "rank" THEN (ra.rank - rb.rank) * dir
           ELSE IF StringLess(ra[sortBy], rb[sortBy]) THEN (0 - 1) * dir
           ELSE IF StringLess(rb[sortBy], ra[sortBy]) THEN 1 * dir
           ELSE 0]

getFilteredSequences_stopsShown(filteredIndices, sortBy, sortDir, searchQuery, hideStops) ==
    LET indices == IF filteredIndices # NULLSET THEN filteredIndices ELSE AllIndices
        q == toUpperCase(searchQuery)
        found == IF searchQuery # <<>>
                 THEN SelectSeq(indices, LAMBDA i : SearchKeeps(sequences[i + 1], q))
                 ELSE indices
        dir == IF sortDir = "asc" THEN 1 ELSE 0 - 1
    IN IF sortBy \in {"slope", "rank"} \cup PositionColumns
       THEN StableSort(found, SortComparator(Range(found), sortBy, dir))
       ELSE found
getFilteredSequences(filteredIndices, sortBy, sortDir, searchQuery, hideStops) ==
    LET indices == IF filteredIndices # NULLSET THEN filteredIndices ELSE AllIndices
        shown == IF hideStops
                 THEN SelectSeq(indices, LAMBDA i : ~sequences[i + 1].hasStop)
                 ELSE indices
        q == toUpperCase(searchQuery)
        found == IF searchQuery # <<>>
                 THEN SelectSeq(shown, LAMBDA i : SearchKeeps(sequences[i + 1], q))
                 ELSE shown
        dir == IF sortDir = "asc" THEN 1 ELSE 0 - 1
    IN IF sortBy \in {"slope", "rank"} \cup PositionColumns
       THEN StableSort(found, SortComparator(Range(found), sortBy, dir))
       ELSE found

(***************************************************************************)
(* App: the coordinator's state at module load.                            *)
(***************************************************************************)
EmptyFilters == [pos \in Positions |-> NULL]

InitialState ==
    [filters |-> EmptyFilters,
     filteredIndices |-> NULLSET,
     sortBy |-> "slope",
     sortDir |-> "desc",
     searchQuery |-> EMPTY,
     hideStops |-> FALSE,
     colorScale |-> "log"]

NoHandler == [op |-> "none", frag |-> NULL]
\* no setFilter call has just run
NoHist == [pos |-> 0, aa |-> NULL, pre |-> NULL, prevAa |-> NULL, prevPre |-> NULL]
NoQuery == [op |-> "none"]

(***************************************************************************)
(* App: the handlers as functions of the state object.                     *)
(***************************************************************************)
\* setFilter: the assignment to state.filters[pos]
ToggleValue_setAlways(current, aa) == aa
ToggleValue_clearWhenSet(current, aa) == IF current # NULL THEN NULL ELSE aa
ToggleValue(current, aa) == IF current = aa THEN NULL ELSE aa

\* a handler that has reached its call of notify with state st
Returned(st) == [state |-> st, threw |-> FALSE]

\* state.filteredIndices = DataProcessor.getFilteredIndices(state.filters):
\* the assignment does not happen when the call throws
Recompute(st) ==
    LET indices == getFilteredIndices(st.filters)
    IN IF indices = TYPE_ERROR
       THEN [state |-> st, threw |-> TRUE]
       ELSE Returned([st EXCEPT !.filteredIndices = indices])

\* setFilter, up to the call of notify: the state it leaves, whether it threw
SetFilterState(st, pos, aa) ==
    Recompute([st EXCEPT !.filters[pos] = ToggleValue(st.filters[pos], aa)])

\* clearFilter, up to the call of notify
ClearFilterState(st, pos) == Recompute([st EXCEPT !.filters[pos] = NULL])

\* setSort, up to the call of notify
SetSortState_recompute(st, sortBy, sortDir) ==
    Recompute([st EXCEPT !.sortBy = sortBy, !.sortDir = sortDir])
SetSortState(st, sortBy, sortDir) ==
    Returned([st EXCEPT !.sortBy = sortBy, !.sortDir = sortDir])

\* clearAllFilters, up to the call of notify
ClearAllState(st) ==
    Returned([st EXCEPT !.filters = EmptyFilters, !.filteredIndices = NULLSET])

\* getMatchingCount
getMatchingCount_size(st) == Len(st.filteredIndices)
getMatchingCount(st) ==
    IF st.filteredIndices = NULLSET THEN totalCount ELSE Len(st.filteredIndices)

\* saveHash: the fragment written by history.replaceState ('' when cleared)
SaveHash_reversed(filters) ==
    LET constrained == SelectSeq(Reverse(VARIABLE_POSITIONS), LAMBDA pos : filters[pos] # NULL)
        parts == [i \in 1..Len(constrained) |->
                    DecStr(constrained[i]) \o <<":">>
                       \o encodeURIComponent(filters[constrained[i]])]
        filterStr == Join(parts, ",")
    IN IF filterStr # <<>> THEN STR_filters \o <<"=">> \o filterStr ELSE <<>>
SaveHash(filters) ==
    LET constrained == SelectSeq(VARIABLE_POSITIONS, LAMBDA pos : filters[pos] # NULL)
        parts == [i \in 1..Len(constrained) |->
                    DecStr(constrained[i]) \o <<":">>
                       \o encodeURIComponent(filters[constrained[i]])]
        filterStr == Join(parts, ",")
    IN IF filterStr # <<>> THEN STR_filters \o <<"=">> \o filterStr ELSE <<>>

\* the loop of loadHash over the pairs, from the k-th on: [filters, threw]
RECURSIVE ApplyPairs(_, _, _)
ApplyPairs(filters, pairs, k) ==
    IF k > Len(pairs) THEN [filters |-> filters, threw |-> FALSE]
    ELSE LET fields == Split(pairs[k], ":")
             pos == fields[1]
             aa == IF Len(fields) >= 2 THEN fields[2] ELSE UNDEFINED
             posNum == parseInt(pos)
         IN IF ~posNum.nan /\ posNum.v \in Positions /\ aa # UNDEFINED /\ aa # <<>>
            THEN LET value == decodeURIComponent(aa)
                 IN IF value = URI_ERROR
                    THEN [filters |-> filters, threw |-> TRUE]
                    ELSE ApplyPairs([filters EXCEPT ![posNum.v] = value], pairs, k + 1)
            ELSE ApplyPairs(filters, pairs, k + 1)

\* loadHash on fragment text: the state it leaves and whether it threw
LoadHash(st, text) ==
    IF text = <<>> THEN [state |-> st, threw |-> FALSE]
    ELSE LET filterStr == ParamsGet(text, STR_filters)
         IN IF filterStr = NULL \/ filterStr = <<>>
            THEN [state |-> st, threw |-> FALSE]
            ELSE LET applied == ApplyPairs(st.filters, Split(filterStr, ","), 1)
                     withFilters == [st EXCEPT !.filters = applied.filters]
                 IN IF applied.threw
                    THEN [state |-> withFilters, threw |-> TRUE]
                    ELSE Recompute(withFilters)

\* the hashchange listener, up to the call of notify
HashChangeState(st, text) == LoadHash([st EXCEPT !.filters = EmptyFilters], text)

\* notify: the subscribers called, then saveHash: [calls, hash]
Called(fn, st) == [fn |-> fn, state |-> st]
Notify(st, subscribers) ==
    [calls |-> [i \in 1..Len(subscribers) |-> Called(subscribers[i], st)]
                  \o <<Called("saveHash", st)>>,
     hash |-> SaveHash(st.filters)]

(***************************************************************************)
(* Inputs: CSV rows.                                                       *)
(***************************************************************************)
SCAFFOLD == <<"V", "R", "N", "G", "M", "S", "L", "H", "D", "_", "L", "M", "_",
              "_", "L", "K", "_", "R", "G", "L", "Q", "P", "E", "C", "C">>

\* the scaffold with the four variable positions filled in
Variant(a, b, c, d) ==
    [i \in 1..Len(SCAFFOLD) |->
        IF i = 10 THEN a ELSE IF i = 13 THEN b ELSE IF i = 14 THEN c
        ELSE IF i = 17 THEN d ELSE SCAFFOLD[i]]

RowC5 == [seq |-> Variant("C", "K", "K", "K"), slope |-> Num(5), rank |-> Num(12)]
RowK3 == [seq |-> Variant("K", "K", "K", "*"), slope |-> Num(3), rank |-> Absent]
RowC9 == [seq |-> Variant("C", "C", "K", "K"), slope |-> Num(9), rank |-> Num(120)]
\* a value outside AA_ORDER at offset 9
RowX1 == [seq |-> Variant("X", "K", "K", "K"), slope |-> Num(1), rank |-> Num(7)]
\* a sequence that ends at offset 9
RowShort == [seq |-> SubSeq(Variant("C", "K", "K", "K"), 1, 10), slope |-> Num(5), rank |-> Num(0)]
RowNoSeq == [seq |-> EMPTY, slope |-> Num(4), rank |-> Num(3)]
RowNoSlope == [seq |-> Variant("K", "K", "K", "K"), slope |-> Absent, rank |-> Num(4)]
RowBadSlope == [seq |-> Variant("K", "K", "K", "K"), slope |-> Text, rank |-> Num(5)]

ValidRows == {RowC5, RowK3, RowC9, RowX1}
RowPool == ValidRows \cup {RowShort, RowNoSeq, RowNoSlope, RowBadSlope}

SeqsUpTo(S, n) == UNION {[1..k -> S] : k \in 0..n}
RawInputs == SeqsUpTo(RowPool, MaxRows)
QueryInputs == SeqsUpTo(ValidRows, MaxRows)

\* the CSV file the page is served with: a row that init drops and two rows
\* that differ at position 9 only
RowK4 == [seq |-> Variant("K", "K", "K", "K"), slope |-> Num(4), rank |-> Num(2)]
CsvFiles == {<<RowNoSeq, RowK4, RowX1>>}
\* CSV files whose rows offer the filter controls two values to choose from
CsvFilesTwoValues == {<<RowK3, RowX1>>, <<RowNoSeq, RowK3>>}

(***************************************************************************)
(* Inputs: URL fragments the page is opened with or navigated to.          *)
(***************************************************************************)
\* tab=1
FragOther == <<"t", "a", "b", "=", "1">>
\* filters=9:K,16:*
FragFilters == <<"f", "i", "l", "t", "e", "r", "s", "=", "9", ":", "K", ",", "1", "6", ":", "*">>
\* filters=9:%252C, which sets position 9 to ','
FragComma == <<"f", "i", "l", "t", "e", "r", "s", "=", "9", ":", "%", "2", "5", "2", "C">>
\* filters=12:K,9:%25, whose second value decodes to a lone '%'
FragPercent == <<"f", "i", "l", "t", "e", "r", "s", "=", "1", "2", ":", "K", ",", "9", ":", "%", "2", "5">>
\* filters=12:constructor, a value that names an inherited member
FragInherited == STR_filters \o <<"=", "1", "2", ":">> \o STR_constructor
HashInputs == {EMPTY, FragOther, FragFilters, FragComma, FragPercent, FragInherited}

\* what the controls pass to setSort, setSearch and setColorScale
SortChoices == {<<"slope", "desc">>, <<"rank", "asc">>}
SearchChoices == {EMPTY, <<"1", "2">>}
ScaleChoices == {"log", "linear"}

\* the matching sets handed to a query: null or any set of identifiers
RECURSIVE Ascending(_)
Ascending(S) == IF S = {} THEN <<>>
                ELSE LET m == CHOOSE x \in S : \A y \in S : x <= y
                     IN <<m>> \o Ascending(S \ {m})
MatchingSets == {NULLSET} \cup {Ascending(S) : S \in SUBSET (0..(Len(sequences) - 1))}

(***************************************************************************)
(* VizStructure and the viewer when the scripts have been evaluated.       *)
(***************************************************************************)
\* what the viewer shows before anything was loaded into it
NOTHING == 0 - 1

VizStructureAtLoad ==
    /\ viewer = FALSE
    /\ isLoaded = FALSE
    /\ colorDebounceTimer = 0
    /\ timers = {}
    /\ loads = {}
    /\ displayed = NOTHING
    /\ updates = 0
    /\ reloads = <<>>

(***************************************************************************)
(* DataProcessor.init on a raw input (SpecData).                           *)
(***************************************************************************)
InitData ==
    /\ rawData \in RawInputs
    /\ sequences = <<>>
    /\ indexByPosition = <<>>
    /\ aasAtPosition = <<>>
    /\ totalCount = 0
    /\ maxSlope = 0
    /\ minSlope = Infinity
    /\ state = InitialState
    /\ listeners = <<>>
    /\ hash = EMPTY
    /\ phase = "parsed"
    /\ calls = <<>>
    /\ last = NoHandler
    /\ hist = NoHist
    /\ query = NoQuery
    /\ stack = <<>>
    /\ VizStructureAtLoad

\* DataLoader.load: the first animation frame after the CSV is parsed
BuildIndex ==
    /\ phase = "parsed"
    /\ LET dp == DPInit(rawData, maxSlope, minSlope)
       IN /\ sequences' = dp.sequences
          /\ indexByPosition' = dp.indexByPosition
          /\ aasAtPosition' = dp.aasAtPosition
          /\ totalCount' = dp.totalCount
          /\ maxSlope' = dp.maxSlope
          /\ minSlope' = dp.minSlope
    /\ phase' = "indexed"
    /\ UNCHANGED <<stack, vizVars, rawData, appVars, query>>

NextData == BuildIndex

SpecData == InitData /\ [][NextData]_vars

(***************************************************************************)
(* DataProcessor.init called a second time, on another dataset, in the     *)
(* same page (SpecReload).  Fitness values may be negative.                *)
(***************************************************************************)
RowNeg2 == [seq |-> Variant("K", "C", "K", "K"), slope |-> Num(0 - 2), rank |-> Num(9)]
RowNeg7 == [seq |-> Variant("C", "C", "K", "K"), slope |-> Num(0 - 7), rank |-> Num(10)]
ReloadInputs == SeqsUpTo({RowC5, RowX1, RowNeg2, RowNeg7, RowNoSeq}, MaxRows)
\* the datasets of the second call
ReloadDatasets == {<<RowX1>>, <<RowNeg7, RowNeg2>>, <<RowNoSeq>>}

InitReload ==
    /\ rawData \in ReloadInputs
    /\ sequences = <<>>
    /\ indexByPosition = <<>>
    /\ aasAtPosition = <<>>
    /\ totalCount = 0
    /\ maxSlope = 0
    /\ minSlope = Infinity
    /\ state = InitialState
    /\ listeners = <<>>
    /\ hash = EMPTY
    /\ phase = "parsed"
    /\ calls = <<>>
    /\ last = NoHandler
    /\ hist = NoHist
    /\ query = NoQuery
    /\ stack = <<>>
    /\ VizStructureAtLoad

\* DataProcessor.init(raw) on a built index
Reinit(raw) ==
    /\ phase = "indexed"
    /\ query = NoQuery
    /\ rawData' = raw
    /\ LET dp == DPInit(raw, maxSlope, minSlope)
       IN /\ sequences' = dp.sequences
          /\ indexByPosition' = dp.indexByPosition
          /\ aasAtPosition' = dp.aasAtPosition
          /\ totalCount' = dp.totalCount
          /\ maxSlope' = dp.maxSlope
          /\ minSlope' = dp.minSlope
    /\ query' = [op |-> "init"]
    /\ UNCHANGED <<stack, vizVars, appVars, phase>>

NextReload ==
    \/ BuildIndex
    \/ \E raw \in ReloadDatasets : Reinit(raw)

SpecReload == InitReload /\ [][NextReload]_vars

(***************************************************************************)
(* Queries against a built index (SpecQuery): one query, with arguments    *)
(* drawn from the bounded sets, is evaluated on each dataset.              *)
(***************************************************************************)
InitQuery ==
    /\ rawData \in QueryInputs
    /\ LET dp == DPInit(rawData, 0, Infinity)
       IN /\ sequences = dp.sequences
          /\ indexByPosition = dp.indexByPosition
          /\ aasAtPosition = dp.aasAtPosition
          /\ totalCount = dp.totalCount
          /\ maxSlope = dp.maxSlope
          /\ minSlope = dp.minSlope
    /\ state = InitialState
    /\ listeners = <<>>
    /\ hash = EMPTY
    /\ phase = "indexed"
    /\ calls = <<>>
    /\ last = NoHandler
    /\ hist = NoHist
    /\ query = NoQuery
    /\ stack = <<>>
    /\ VizStructureAtLoad

QueryMarginals(pos, S) ==
    /\ query = NoQuery
    /\ query' = [op |-> "computeConditionalMarginals", pos |-> pos, S |-> S,
                 result |-> computeConditionalMarginals(pos, S)]
    /\ UNCHANGED <<stack, vizVars, rawData, dpVars, appVars, phase>>

QueryTopBottom(n, S) ==
    /\ query = NoQuery
    /\ query' = [op |-> "getTopBottom", n |-> n, S |-> S,
                 result |-> getTopBottom(n, S)]
    /\ UNCHANGED <<stack, vizVars, rawData, dpVars, appVars, phase>>

QueryEntropy(S) ==
    /\ query = NoQuery
    /\ query' = [op |-> "computePositionEntropy", S |-> S,
                 result |-> computePositionEntropy(S)]
    /\ UNCHANGED <<stack, vizVars, rawData, dpVars, appVars, phase>>

\* three of the six pairs of positions the pairwise heatmaps are drawn for
PositionPairs == {<<9, 12>>, <<9, 16>>, <<13, 16>>}

QueryPairwise(posA, posB, S) ==
    /\ query = NoQuery
    /\ query' = [op |-> "computePairwiseStats", posA |-> posA, posB |-> posB,
                 S |-> S, result |-> computePairwiseStats(posA, posB, S)]
    /\ UNCHANGED <<stack, vizVars, rawData, dpVars, appVars, phase>>

QuerySlopes(S) ==
    /\ query = NoQuery
    /\ query' = [op |-> "getAllSlopes", S |-> S, result |-> getAllSlopes(S)]
    /\ UNCHANGED <<stack, vizVars, rawData, dpVars, appVars, phase>>

\* the table's query with the sort, search and stop settings of the
\* coordinator's state
QueryTable(S) ==
    /\ query = NoQuery
    /\ query' = [op |-> "getFilteredSequences", S |-> S, sortBy |-> state.sortBy,
                 sortDir |-> state.sortDir, searchQuery |-> state.searchQuery,
                 hideStops |-> state.hideStops,
                 result |-> getFilteredSequences(S, state.sortBy, state.sortDir,
                                                 state.searchQuery, state.hideStops)]
    /\ UNCHANGED <<stack, vizVars, rawData, dpVars, appVars, phase>>

NextQuery ==
    \/ \E pos \in Positions, S \in MatchingSets : QueryMarginals(pos, S)
    \/ \E n \in 0..MaxN, S \in MatchingSets : QueryTopBottom(n, S)

SpecQuery == InitQuery /\ [][NextQuery]_vars

(***************************************************************************)
(* The six queries of the renderers against a built index (SpecRender).    *)
(***************************************************************************)
RenderInputs == SeqsUpTo({RowC5, RowK3, RowX1}, MaxRows)

InitRender ==
    /\ rawData \in RenderInputs
    /\ LET dp == DPInit(rawData, 0, Infinity)
       IN /\ sequences = dp.sequences
          /\ indexByPosition = dp.indexByPosition
          /\ aasAtPosition = dp.aasAtPosition
          /\ totalCount = dp.totalCount
          /\ maxSlope = dp.maxSlope
          /\ minSlope = dp.minSlope
    /\ state = InitialState
    /\ listeners = <<>>
    /\ hash = EMPTY
    /\ phase = "indexed"
    /\ calls = <<>>
    /\ last = NoHandler
    /\ hist = NoHist
    /\ query = NoQuery
    /\ stack = <<>>
    /\ VizStructureAtLoad

NextRender ==
    \/ \E pos \in Positions, S \in MatchingSets : QueryMarginals(pos, S)
    \/ \E n \in 0..MaxN, S \in MatchingSets : QueryTopBottom(n, S)
    \/ \E S \in MatchingSets : QueryEntropy(S)
    \/ \E pair \in PositionPairs, S \in MatchingSets : QueryPairwise(pair[1], pair[2], S)
    \/ \E S \in MatchingSets : QuerySlopes(S)
    \/ \E S \in MatchingSets : QueryTable(S)

SpecRender == InitRender /\ [][NextRender]_vars

(***************************************************************************)
(* getFilteredIndices on a built index (SpecResolve): one filter map, with *)
(* at most MaxConstrained positions constrained, is resolved per dataset.  *)
(***************************************************************************)
MaxConstrained == 2

\* rows of the datasets: two full sequences and one that ends at offset 9
ResolveInputs == SeqsUpTo({RowC5, RowK3, RowShort}, MaxRows)

\* values of a filter map: present in a bucket of some dataset, absent from
\* all of them, or inherited by every bucket map
FilterValues == {<<"K">>, <<"C">>, EMPTY, STR_undefined, STR_constructor}
FilterMaps ==
    {filters \in [Positions -> FilterValues \cup {NULL}] :
        Cardinality({pos \in Positions : filters[pos] # NULL}) <= MaxConstrained}

InitResolve ==
    /\ rawData \in ResolveInputs
    /\ LET dp == DPInit(rawData, 0, Infinity)
       IN /\ sequences = dp.sequences
          /\ indexByPosition = dp.indexByPosition
          /\ aasAtPosition = dp.aasAtPosition
          /\ totalCount = dp.totalCount
          /\ maxSlope = dp.maxSlope
          /\ minSlope = dp.minSlope
    /\ state = InitialState
    /\ listeners = <<>>
    /\ hash = EMPTY
    /\ phase = "indexed"
    /\ calls = <<>>
    /\ last = NoHandler
    /\ hist = NoHist
    /\ query = NoQuery
    /\ stack = <<>>
    /\ VizStructureAtLoad

QueryFilteredIndices(filters) ==
    /\ query = NoQuery
    /\ query' = [op |-> "getFilteredIndices", filters |-> filters,
                 result |-> getFilteredIndices(filters)]
    /\ UNCHANGED <<stack, vizVars, rawData, dpVars, appVars, phase>>

NextResolve == \E filters \in FilterMaps : QueryFilteredIndices(filters)

SpecResolve == InitResolve /\ [][NextResolve]_vars

(***************************************************************************)
(* computePairwiseStats on a built index with short rows (SpecPairs), for  *)
(* every ordered pair of distinct positions.                               *)
(***************************************************************************)
OrderedPairs == {pair \in Positions \X Positions : pair[1] # pair[2]}

NextPairs ==
    \E pair \in OrderedPairs, S \in MatchingSets : QueryPairwise(pair[1], pair[2], S)

SpecPairs == InitResolve /\ [][NextPairs]_vars

(***************************************************************************)
(* getTopBottom on the matching set that getFilteredIndices returns, as    *)
(* VizCharts calls it with state.filteredIndices (SpecRank).               *)
(***************************************************************************)
RankFilterMaps ==
    {filters \in [Positions -> {<<"K">>, <<"C">>, NULL}] :
        Cardinality({pos \in Positions : filters[pos] # NULL}) <= MaxConstrained}

QueryRanked(n, filters) ==
    /\ query = NoQuery
    /\ LET S == getFilteredIndices(filters)
       IN query' = IF S = TYPE_ERROR
                   THEN [op |-> "getFilteredIndices", filters |-> filters, result |-> S]
                   ELSE [op |-> "getTopBottom", n |-> n, S |-> S, filters |-> filters,
                         result |-> getTopBottom(n, S)]
    /\ UNCHANGED <<stack, vizVars, rawData, dpVars, appVars, phase>>

NextRank == \E n \in 0..MaxN, filters \in RankFilterMaps : QueryRanked(n, filters)

SpecRank == InitResolve /\ [][NextRank]_vars

(***************************************************************************)
(* getFilteredSequences on a built index (SpecSearch).                     *)
(***************************************************************************)
\* a row with a lower-case letter that occurs nowhere else, rank 812
RowLower == [seq |-> Variant("w", "K", "K", "K"), slope |-> Num(2), rank |-> Num(812)]
SearchInputs == SeqsUpTo({RowC5, RowK3, RowLower}, MaxRows)

\* the arguments the table passes: sort column and direction, search text
TableSorts == {<<"slope", "desc">>, <<"rank", "asc">>, <<"p9", "asc">>}
TableSearches == {EMPTY, <<"1", "2">>, <<"w">>}

InitSearch ==
    /\ rawData \in SearchInputs
    /\ LET dp == DPInit(rawData, 0, Infinity)
       IN /\ sequences = dp.sequences
          /\ indexByPosition = dp.indexByPosition
          /\ aasAtPosition = dp.aasAtPosition
          /\ totalCount = dp.totalCount
          /\ maxSlope = dp.maxSlope
          /\ minSlope = dp.minSlope
    /\ state = InitialState
    /\ listeners = <<>>
    /\ hash = EMPTY
    /\ phase = "indexed"
    /\ calls = <<>>
    /\ last = NoHandler
    /\ hist = NoHist
    /\ query = NoQuery
    /\ stack = <<>>
    /\ VizStructureAtLoad

QuerySequences(S, sortBy, sortDir, searchQuery, hideStops) ==
    /\ query = NoQuery
    /\ query' = [op |-> "getFilteredSequences", S |-> S, sortBy |-> sortBy,
                 sortDir |-> sortDir, searchQuery |-> searchQuery,
                 hideStops |-> hideStops,
                 result |-> getFilteredSequences(S, sortBy, sortDir,
                                                 searchQuery, hideStops)]
    /\ UNCHANGED <<stack, vizVars, rawData, dpVars, appVars, phase>>

NextSearch ==
    \E S \in MatchingSets, sort \in TableSorts, q \in TableSearches, hide \in BOOLEAN :
        QuerySequences(S, sort[1], sort[2], q, hide)

SpecSearch == InitSearch /\ [][NextSearch]_vars

(***************************************************************************)
(* The page (Spec): load sequence, controls and hashchange.                *)
(***************************************************************************)
Init ==
    /\ rawData = <<>>
    /\ sequences = <<>>
    /\ indexByPosition = <<>>
    /\ aasAtPosition = <<>>
    /\ totalCount = 0
    /\ maxSlope = 0
    /\ minSlope = Infinity
    /\ state = InitialState
    /\ listeners = <<>>
    /\ hash \in HashInputs
    /\ phase = "loading"
    /\ calls = <<>>
    /\ last = NoHandler
    /\ hist = NoHist
    /\ query = NoQuery
    /\ stack = <<>>
    /\ VizStructureAtLoad

Handler(op) == [NoHandler EXCEPT !.op = op]

\* Papa.parse complete: the CSV has been downloaded and parsed
PapaComplete(files) ==
    /\ phase = "loading"
    /\ rawData' \in files
    /\ phase' = "parsed"
    /\ UNCHANGED <<stack, vizVars, dpVars, appVars, query>>

\* the subscribers registered synchronously by the callback of App.init
InitialSubscribers == <<"UISelector.update", "VizHeatmap.render",
                        "VizCharts.render", "UITable.render">>

\* DataLoader.load: the second animation frame runs the callback of App.init
AppReady ==
    /\ phase = "indexed"
    /\ LET loaded == LoadHash(state, hash)
       IN IF loaded.threw
          THEN /\ state' = loaded.state
               /\ phase' = "failed"
               /\ calls' = <<>>
               /\ UNCHANGED <<listeners, hash>>
          ELSE LET sent == Notify(loaded.state, InitialSubscribers)
               IN /\ state' = loaded.state
                  /\ listeners' = InitialSubscribers
                  /\ calls' = sent.calls
                  /\ hash' = sent.hash
                  /\ phase' = "ready"
    /\ last' = [Handler("init") EXCEPT !.frag = hash]
    /\ hist' = NoHist
    /\ UNCHANGED <<stack, vizVars, rawData, dpVars, query>>

\* VizStructure.init resumes after the viewer has loaded
StructureReady ==
    /\ phase = "ready"
    /\ ~Has(listeners, "VizStructure.updateColors")
    /\ listeners' = Append(listeners, "VizStructure.updateColors")
    /\ calls' = <<Called("VizStructure.updateColors", state)>>
    /\ last' = Handler("subscribe")
    /\ hist' = NoHist
    /\ UNCHANGED <<stack, vizVars, rawData, dpVars, state, hash, phase, query>>

\* a mutator followed by notify; a mutator that threw calls nobody
Mutate(outcome, handler, newHist) ==
    /\ phase = "ready"
    /\ state' = outcome.state
    /\ IF outcome.threw
       THEN /\ calls' = <<>>
            /\ UNCHANGED hash
       ELSE LET sent == Notify(outcome.state, listeners)
            IN /\ calls' = sent.calls
               /\ hash' = sent.hash
    /\ last' = handler
    /\ hist' = newHist
    /\ UNCHANGED <<stack, vizVars, rawData, dpVars, listeners, phase, query>>

\* the values offered by the chips and the heatmaps
UIValues == UNION {Range(aasAtPosition[pos]) : pos \in DOMAIN aasAtPosition}

SetFilter(pos, aa) ==
    Mutate(SetFilterState(state, pos, aa), Handler("setFilter"), NoHist)

\* setFilter, remembering its arguments and those of a setFilter call on
\* the same position that ran just before it
SetFilterTracked(pos, aa) ==
    Mutate(SetFilterState(state, pos, aa), Handler("setFilter"),
           [pos |-> pos, aa |-> aa, pre |-> state.filters[pos],
            prevAa |-> IF hist.pos = pos THEN hist.aa ELSE NULL,
            prevPre |-> IF hist.pos = pos THEN hist.pre ELSE NULL])

ClearFilter(pos) == Mutate(ClearFilterState(state, pos), Handler("clearFilter"), NoHist)

ClearAllFilters == Mutate(ClearAllState(state), Handler("clearAllFilters"), NoHist)

SetSort(sortBy, sortDir) ==
    Mutate(SetSortState(state, sortBy, sortDir), Handler("setSort"), NoHist)

SetSearch(q) ==
    Mutate(Returned([state EXCEPT !.searchQuery = q]), Handler("setSearch"), NoHist)

SetHideStops(hide) ==
    Mutate(Returned([state EXCEPT !.hideStops = hide]), Handler("setHideStops"), NoHist)

SetColorScale(scale) ==
    Mutate(Returned([state EXCEPT !.colorScale = scale]), Handler("setColorScale"), NoHist)

\* the user navigates to another fragment and the hashchange listener runs
HashChange(text) ==
    /\ text # hash
    /\ LET loaded == HashChangeState(state, text)
       IN IF loaded.threw
          THEN /\ state' = loaded.state
               /\ calls' = <<>>
               /\ hash' = text
          ELSE LET sent == Notify(loaded.state, listeners)
               IN /\ state' = loaded.state
                  /\ calls' = sent.calls
                  /\ hash' = sent.hash
    /\ last' = [Handler("hashchange") EXCEPT !.frag = text]
    /\ hist' = NoHist
    /\ UNCHANGED <<stack, vizVars, rawData, dpVars, listeners, phase, query>>

Next ==
    \/ PapaComplete(CsvFiles)
    \/ BuildIndex
    \/ AppReady
    \/ StructureReady
    \/ \E pos \in Positions, aa \in UIValues : SetFilter(pos, aa)
    \/ \E pos \in Positions : ClearFilter(pos)
    \/ ClearAllFilters
    \/ \E choice \in SortChoices : SetSort(choice[1], choice[2])
    \/ \E q \in SearchChoices : SetSearch(q)
    \/ \E hide \in BOOLEAN : SetHideStops(hide)
    \/ \E scale \in ScaleChoices : SetColorScale(scale)
    \/ \E text \in HashInputs : HashChange(text)

Spec == Init /\ [][Next]_vars

(***************************************************************************)
(* The page with the filter controls only, setFilter calls remembered      *)
(* (SpecFilters).                                                          *)
(***************************************************************************)
NextFilters ==
    \/ PapaComplete(CsvFilesTwoValues)
    \/ BuildIndex
    \/ AppReady
    \/ \E pos \in Positions, aa \in UIValues : SetFilterTracked(pos, aa)
    \/ \E pos \in Positions : ClearFilter(pos)
    \/ ClearAllFilters
    \/ \E text \in HashInputs : HashChange(text)

SpecFilters == Init /\ [][NextFilters]_vars

(***************************************************************************)
(* The loaded page step by step (SpecStructure): a mutator, then notify    *)
(* calling the subscribers one after the other, then saveHash; the timer   *)
(* of VizStructure.updateColors and the reloads of the viewer.  A task of  *)
(* the event loop (an event handler, a timer, the continuation of an await)*)
(* starts only when no script is running.  The colorOverrides built by the *)
(* k-th call of updateColors are written k, and 0 stands for [].           *)
(***************************************************************************)
MaxUpdates == 3
MaxDepth == 2

\* the page when the callback of App.init has returned, opened without a
\* fragment on a dataset of two rows
InitStructure ==
    /\ rawData = <<RowK4, RowX1>>
    /\ LET dp == DPInit(rawData, 0, Infinity)
       IN /\ sequences = dp.sequences
          /\ indexByPosition = dp.indexByPosition
          /\ aasAtPosition = dp.aasAtPosition
          /\ totalCount = dp.totalCount
          /\ maxSlope = dp.maxSlope
          /\ minSlope = dp.minSlope
    /\ state = InitialState
    /\ listeners = InitialSubscribers
    /\ hash = EMPTY
    /\ phase = "ready"
    /\ calls = Notify(InitialState, InitialSubscribers).calls
    /\ last = [Handler("init") EXCEPT !.frag = EMPTY]
    /\ hist = NoHist
    /\ query = NoQuery
    /\ stack = <<>>
    /\ VizStructureAtLoad

\* the mutators a subscriber calls before it returns
SubscriberMutations_resort(fn) ==
    IF fn = "UITable.render" THEN <<"setSort">> ELSE <<>>
SubscriberMutations(fn) ==
    CASE fn = "UISelector.update" -> <<>>
      [] fn = "VizHeatmap.render" -> <<>>
      [] fn = "VizCharts.render" -> <<>>
      [] fn = "UITable.render" -> <<>>
      [] fn = "VizStructure.updateColors" -> <<>>

\* clearTimeout(colorDebounceTimer); colorDebounceTimer = setTimeout(...):
\* the pending timers afterwards
Debounce_keepPrevious(pending, timer, id, colorOverrides) ==
    pending \cup {[id |-> id, colorOverrides |-> colorOverrides]}
Debounce(pending, timer, id, colorOverrides) ==
    {t \in pending : t.id # timer} \cup {[id |-> id, colorOverrides |-> colorOverrides]}

\* the body of updateColors, called for the (updates + 1)-th time
UpdateColorsBody ==
    /\ updates' = updates + 1
    /\ timers' = Debounce(timers, colorDebounceTimer, updates + 1, updates + 1)
    /\ colorDebounceTimer' = updates + 1
    /\ UNCHANGED <<viewer, isLoaded, loads, displayed, reloads>>

\* VizStructure.init up to its first await: molstar.Viewer.create resolves
\* and loadStructureWithColors([]) is called
ViewerCreated ==
    /\ stack = <<>>
    /\ ~viewer
    /\ viewer' = TRUE
    /\ loads' = {0}
    /\ UNCHANGED <<rawData, dpVars, appVars, phase, query, stack, isLoaded,
                   colorDebounceTimer, timers, displayed, updates, reloads>>

\* VizStructure.init after loadStructureWithColors([]) has settled (loadMVS
\* resolved, or threw and the fallback ran): subscribe, updateColors
InitialLoadSettled(ok) ==
    /\ stack = <<>>
    /\ viewer /\ ~isLoaded /\ 0 \in loads
    /\ loads' = loads \ {0}
    /\ displayed' = IF ok THEN 0 ELSE NOTHING
    /\ isLoaded' = TRUE
    /\ listeners' = Append(listeners, "VizStructure.updateColors")
    /\ updates' = updates + 1
    /\ timers' = Debounce(timers, colorDebounceTimer, updates + 1, updates + 1)
    /\ colorDebounceTimer' = updates + 1
    /\ UNCHANGED <<rawData, dpVars, state, hash, calls, last, hist, phase, query,
                   stack, viewer, reloads>>

\* an event handler calls a mutator, which updates the state and enters
\* notify
Dispatch(op, st) ==
    /\ stack = <<>>
    /\ updates < MaxUpdates
    /\ state' = st
    /\ stack' = <<[op |-> op, next |-> 1]>>
    /\ calls' = <<>>
    /\ last' = Handler(op)
    /\ UNCHANGED <<rawData, dpVars, listeners, hash, hist, phase, query, vizVars>>

\* notify calls the next subscriber, which runs until it returns or calls
\* a mutator itself
CallSubscriber ==
    /\ stack # <<>>
    /\ LET top == stack[Len(stack)]
           fn == listeners[top.next]
           inner == SubscriberMutations(fn)
       IN /\ top.next <= Len(listeners)
          /\ calls' = Append(calls, Called(fn, state))
          /\ IF inner = <<>>
             THEN stack' = [stack EXCEPT ![Len(stack)].next = @ + 1]
             ELSE /\ Len(stack) < MaxDepth
                  /\ stack' = Append([stack EXCEPT ![Len(stack)].next = @ + 1],
                                     [op |-> inner[1], next |-> 1])
          /\ IF fn = "VizStructure.updateColors"
             THEN UpdateColorsBody
             ELSE UNCHANGED vizVars
    /\ UNCHANGED <<rawData, dpVars, state, listeners, hash, last, hist, phase, query>>

\* notify has called every subscriber: saveHash, and the mutator returns
NotifyReturns ==
    /\ stack # <<>>
    /\ stack[Len(stack)].next > Len(listeners)
    /\ calls' = Append(calls, Called("saveHash", state))
    /\ hash' = SaveHash(state.filters)
    /\ stack' = SubSeq(stack, 1, Len(stack) - 1)
    /\ UNCHANGED <<rawData, dpVars, state, listeners, last, hist, phase, query, vizVars>>

\* the change listener of #structure-color-mode calls updateColors
ColorModeChanged ==
    /\ stack = <<>>
    /\ isLoaded
    /\ updates < MaxUpdates
    /\ UpdateColorsBody
    /\ UNCHANGED <<rawData, dpVars, appVars, phase, query, stack>>

\* a timer of updateColors fires: loadStructureWithColors(colorOverrides)
\* runs up to its await of mvs.loadMVS
TimerFires(id) ==
    /\ stack = <<>>
    /\ \E t \in timers :
          /\ t.id = id
          /\ timers' = timers \ {t}
          /\ loads' = loads \cup {t.colorOverrides}
          /\ reloads' = Append(reloads, [colorOverrides |-> t.colorOverrides,
                                         latest |-> updates])
    /\ UNCHANGED <<rawData, dpVars, appVars, phase, query, stack, viewer, isLoaded,
                   colorDebounceTimer, displayed, updates>>

\* a loadMVS call of a timer settles: the viewer shows its colors, or it
\* threw and the viewer is left as it was
LoadSettled(colorOverrides, ok) ==
    /\ stack = <<>>
    /\ isLoaded
    /\ colorOverrides \in loads
    /\ loads' = loads \ {colorOverrides}
    /\ displayed' = IF ok THEN colorOverrides ELSE displayed
    /\ UNCHANGED <<rawData, dpVars, appVars, phase, query, stack, viewer, isLoaded,
                   colorDebounceTimer, timers, updates, reloads>>

NextStructure ==
    \/ ViewerCreated
    \/ \E ok \in BOOLEAN : InitialLoadSettled(ok)
    \/ \E scale \in ScaleChoices :
          Dispatch("setColorScale", [state EXCEPT !.colorScale = scale])
    \/ Dispatch("clearAllFilters", ClearAllState(state).state)
    \/ CallSubscriber
    \/ NotifyReturns
    \/ ColorModeChanged
    \/ \E id \in 1..MaxUpdates : TimerFires(id)
    \/ \E colorOverrides \in 1..MaxUpdates, ok \in BOOLEAN : LoadSettled(colorOverrides, ok)

SpecStructure == InitStructure /\ [][NextStructure]_vars

(***************************************************************************)
(* C1: after DataProcessor.init, at each of the four positions every       *)
(* identifier 0..N-1 occurs in exactly one bucket, exactly once, and the   *)
(* buckets hold nothing else.                                              *)
(***************************************************************************)
Occurrences(bucket, id) == Cardinality({i \in 1..Len(bucket) : bucket[i] = id})

BucketsPartition(pos) ==
    LET buckets == indexByPosition[pos]
    IN /\ \A id \in 0..(Len(sequences) - 1) :
            /\ Cardinality({aa \in DOMAIN buckets : Has(buckets[aa], id)}) = 1
            /\ \A aa \in DOMAIN buckets : Occurrences(buckets[aa], id) <= 1
       /\ \A aa \in DOMAIN buckets :
            Range(buckets[aa]) \subseteq 0..(Len(sequences) - 1)

C1_Partition ==
    phase = "indexed" => \A pos \in Positions : BucketsPartition(pos)

\* an index built from an input with a dropped row before a retained one
C1_Witness ==
    /\ phase = "indexed"
    /\ Len(sequences) >= 2
    /\ Len(sequences) < Len(rawData)
    /\ RowDropped(rawData[1])
    /\ \E pos \in Positions : Cardinality(DOMAIN indexByPosition[pos]) >= 2

(***************************************************************************)
(* C2: the counts of computeConditionalMarginals(p, S) sum to |S|, or to   *)
(* totalCount when S is null.                                              *)
(***************************************************************************)
SizeOf(S) == IF S = NULLSET THEN totalCount ELSE Len(S)
CountSum(entries) == SumSeq([i \in 1..Len(entries) |-> entries[i].count])

C2_SumLaw ==
    query.op = "computeConditionalMarginals" =>
        CountSum(query.result) = SizeOf(query.S)

(***************************************************************************)
(* C9: what getTopBottom(n, S) returns.                                    *)
(***************************************************************************)
DataOf(S) == IF S = NULLSET THEN AllIndices ELSE S
Min(a, b) == IF a <= b THEN a ELSE b
Distinct(ids) == \A i, j \in 1..Len(ids) : i # j => ids[i] # ids[j]
NonIncreasing(xs) == \A i \in 1..(Len(xs) - 1) : xs[i] >= xs[i + 1]
NonDecreasing(xs) == \A i \in 1..(Len(xs) - 1) : xs[i] <= xs[i + 1]

\* ids are the k highest-fitness rows of S, best first
IsTop(ids, S, k) ==
    /\ Len(ids) = k
    /\ Distinct(ids)
    /\ Range(ids) \subseteq Range(DataOf(S))
    /\ NonIncreasing(SlopesOf(ids))
    /\ \A a \in Range(ids), b \in Range(DataOf(S)) \ Range(ids) :
          sequences[a + 1].slope >= sequences[b + 1].slope

\* ids are the k lowest-fitness rows of S
IsLowest(ids, S, k) ==
    /\ Len(ids) = k
    /\ Distinct(ids)
    /\ Range(ids) \subseteq Range(DataOf(S))
    /\ \A a \in Range(ids), b \in Range(DataOf(S)) \ Range(ids) :
          sequences[a + 1].slope <= sequences[b + 1].slope

\* C9 as claimed: top is the first n rows in descending fitness order and
\* bottom lists the n lowest rows in descending fitness order, the absolute
\* minimum last.
C9_BottomEndsAtMinimum ==
    query.op = "getTopBottom" /\ query.n >= 1 =>
        LET k == Min(query.n, Len(DataOf(query.S)))
        IN /\ IsTop(query.result.top, query.S, k)
           /\ IsLowest(query.result.bottom, query.S, k)
           /\ NonIncreasing(SlopesOf(query.result.bottom))

\* C9 as amended: for n >= 1, top is the first min(n, |S|) rows in
\* descending fitness order and bottom lists the min(n, |S|) lowest rows in
\* ascending fitness order, the absolute minimum first; over fitness
\* [5,3,9,1] with n = 2 and S null, top = [9,5] and bottom = [1,3].
C9_BottomStartsAtMinimum ==
    query.op = "getTopBottom" /\ query.n >= 1 =>
        LET k == Min(query.n, Len(DataOf(query.S)))
        IN /\ IsTop(query.result.top, query.S, k)
           /\ IsLowest(query.result.bottom, query.S, k)
           /\ NonDecreasing(SlopesOf(query.result.bottom))
           /\ (query.n = 2 /\ query.S = NULLSET /\ SlopesOf(AllIndices) = <<5, 3, 9, 1>>
                  => /\ SlopesOf(query.result.top) = <<9, 5>>
                     /\ SlopesOf(query.result.bottom) = <<1, 3>>)

\* the example of the claim has been evaluated
C9_Witness ==
    /\ query.op = "getTopBottom"
    /\ query.n = 2
    /\ query.S = NULLSET
    /\ SlopesOf(AllIndices) = <<5, 3, 9, 1>>
    /\ SlopesOf(query.result.bottom) = <<1, 3>>

(***************************************************************************)
(* C3: whenever a subscriber is notified, the matching set it is shown is  *)
(* the resolution of the filter map it is shown.                           *)
(***************************************************************************)
C3_MatchingSetConsistent ==
    \A i \in 1..Len(calls) :
        calls[i].fn # "saveHash" =>
            calls[i].state.filteredIndices = getFilteredIndices(calls[i].state.filters)

(***************************************************************************)
(* C4: restoring, in a freshly loaded page, the fragment that saveHash     *)
(* wrote gives back the filter map and the matching set that were saved.   *)
(***************************************************************************)
Saved == phase = "ready" /\ calls # <<>> /\ calls[Len(calls)].fn = "saveHash"

C4_RoundTrip ==
    Saved =>
        LET restored == LoadHash(InitialState, hash)
        IN /\ ~restored.threw
           /\ restored.state.filters = state.filters
           /\ restored.state.filteredIndices = state.filteredIndices

(***************************************************************************)
(* C5: a restore from a missing fragment, or from one without a filters    *)
(* entry, leaves every position unselected and the matching set null.      *)
(***************************************************************************)
NoFiltersEntry(text) == text = <<>> \/ ParamsGet(text, STR_filters) \in {NULL, <<>>}

C5_RestoreFallsBack ==
    last.op \in {"init", "hashchange"} /\ NoFiltersEntry(last.frag) =>
        /\ state.filters = EmptyFilters
        /\ state.filteredIndices = NULLSET

(***************************************************************************)
(* C6: the toggle law of setFilter.                                        *)
(***************************************************************************)
\* the identifiers of the rows that carry the selected value at every
\* constrained position, null when no position is constrained
Resolution(filters) ==
    IF filters = EmptyFilters THEN NULLSET
    ELSE Ascending({id \in 0..(Len(sequences) - 1) :
            \A pos \in Positions :
                filters[pos] # NULL =>
                    ToKey(CharAt(sequences[id + 1].seq, pos)) = filters[pos]})

\* setFilter(pos, aa) has just run twice in a row
SetTwice == hist.pos # 0 /\ hist.prevAa = hist.aa

\* C6 as claimed: from any state, setFilter(p, v) twice in a row leaves p
\* unconstrained and the matching set equal to the resolution of the
\* remaining constraints.
C6_ToggleFromAnyState ==
    SetTwice =>
        /\ state.filters[hist.pos] = NULL
        /\ state.filteredIndices = Resolution(state.filters)

\* C6 as amended: from any state in which position p does not already hold
\* v, setFilter(p, v) twice in a row leaves p unconstrained; the matching
\* set is the resolution of the remaining constraints, except that the call
\* notifies nobody when getFilteredIndices throws on a remaining value.
C6_ToggleLaw ==
    SetTwice /\ hist.prevPre # hist.aa =>
        /\ state.filters[hist.pos] = NULL
        /\ IF getFilteredIndices(state.filters) = TYPE_ERROR
           THEN calls = <<>>
           ELSE state.filteredIndices = Resolution(state.filters)

\* the second of two equal setFilter calls has cleared a position that held
\* another value before the first, another position staying constrained
C6_Witness ==
    /\ SetTwice
    /\ hist.prevPre \notin {NULL, hist.aa}
    /\ state.filters[hist.pos] = NULL
    /\ state.filters # EmptyFilters
    /\ state.filteredIndices # <<>>

(***************************************************************************)
(* C7: after setFilter(p, v1) then setFilter(p, v2) with v1 # v2, position *)
(* p holds v2; every position holds null or one string.                    *)
(***************************************************************************)
Characters == Unreserved \cup DOMAIN Escapes
IsString(v) == v # <<>> /\ \A i \in 1..Len(v) : v[i] \in Characters

C7_Replacement ==
    /\ hist.pos # 0 /\ hist.prevAa \notin {NULL, hist.aa} =>
          state.filters[hist.pos] = hist.aa
    /\ DOMAIN state.filters = Positions
    /\ \A pos \in Positions : state.filters[pos] = NULL \/ IsString(state.filters[pos])

\* the first call selected v1, the second replaced it by v2
C7_Witness ==
    /\ hist.pos # 0
    /\ hist.prevAa \notin {NULL, hist.aa}
    /\ hist.pre = hist.prevAa
    /\ state.filters[hist.pos] = hist.aa
    /\ state.filteredIndices # <<>>

(***************************************************************************)
(* C8: the empty filter map resolves to null, and the matching count of a  *)
(* null matching set is totalCount, the number of rows.                    *)
(***************************************************************************)
C8_EmptyIsUnconstrained ==
    /\ getFilteredIndices(EmptyFilters) = NULLSET
    /\ state.filteredIndices = NULLSET =>
          /\ getMatchingCount(state) = totalCount
          /\ totalCount = Len(AllIndices)

\* clearAllFilters has run on a page with rows
C8_Witness ==
    /\ last.op = "clearAllFilters"
    /\ state.filters = EmptyFilters
    /\ state.filteredIndices = NULLSET
    /\ getMatchingCount(state) >= 2

(***************************************************************************)
(* C10: a mutator calls every subscriber once, in subscription order, with *)
(* the state it has updated, and writes the fragment after the last one.   *)
(***************************************************************************)
Mutators == {"setFilter", "clearFilter", "clearAllFilters", "setSort",
             "setSearch", "setHideStops", "setColorScale"}

C10_Broadcast ==
    last.op \in Mutators =>
        /\ Len(calls) = Len(listeners) + 1
        /\ \A i \in 1..Len(listeners) : calls[i] = Called(listeners[i], state)
        /\ calls[Len(calls)] = Called("saveHash", state)
        /\ hash = SaveHash(state.filters)

(***************************************************************************)
(* C11: setSort, setSearch, setHideStops and setColorScale change their    *)
(* own fields only: the filter map and the matching set stay as they were, *)
(* also when the matching set is not what the filter map resolves to.      *)
(***************************************************************************)
DisplayMutators == {"setSort", "setSearch", "setHideStops", "setColorScale"}
OwnFields == [setSort |-> {"sortBy", "sortDir"}, setSearch |-> {"searchQuery"},
              setHideStops |-> {"hideStops"}, setColorScale |-> {"colorScale"}]

C11_DisplayFrame ==
    [][last'.op \in DisplayMutators =>
          \A field \in DOMAIN state :
              field \notin OwnFields[last'.op] => state'[field] = state[field]]_vars

\* setSort has run on a state whose matching set is not the one its filter
\* map resolves to, and has left that matching set alone
C11_Witness ==
    /\ last.op = "setSort"
    /\ state.sortBy = "rank"
    /\ state.filters = EmptyFilters
    /\ state.filteredIndices # NULLSET

(***************************************************************************)
(* C12: a filter map that constrains some position to a value without a    *)
(* bucket there resolves to the empty concrete set, with no error; null is *)
(* returned only for the filter map that constrains no position.           *)
(***************************************************************************)
Resolved == query.op = "getFilteredIndices"
NoBucket(filters, pos) ==
    filters[pos] # NULL /\ filters[pos] \notin DOMAIN indexByPosition[pos]

C12_UnknownValueIsEmpty ==
    Resolved =>
        /\ (\E pos \in Positions : NoBucket(query.filters, pos)) => query.result = <<>>
        /\ query.result # TYPE_ERROR
        /\ query.result = NULLSET <=> query.filters = EmptyFilters

(***************************************************************************)
(* C13: with a non-empty search text q, getFilteredSequences keeps a row   *)
(* exactly when the upper-cased four position values contain upper-cased   *)
(* q, or the upper-cased sequence does, or the decimal rank contains q.    *)
(***************************************************************************)
\* the identifiers the search is applied to
Candidates(S, hideStops) ==
    {id \in Range(DataOf(S)) : hideStops => ~sequences[id + 1].hasStop}

C13_SearchIgnoresCase ==
    query.op = "getFilteredSequences" /\ query.searchQuery # <<>> =>
        \A id \in Candidates(query.S, query.hideStops) :
            LET s == sequences[id + 1]
                q == query.searchQuery
            IN Has(query.result, id) <=>
                  \/ Includes(toUpperCase(s.p9 \o s.p12 \o s.p13 \o s.p16),
                              toUpperCase(q))
                  \/ Includes(toUpperCase(s.seq), toUpperCase(q))
                  \/ Includes(StringOf(s.rank), q)

(***************************************************************************)
(* C14: the maximum entropy computePositionEntropy(S) reports for a        *)
(* position is log2(k), k being the number of distinct values at that      *)
(* position in the whole dataset, whatever S is.                           *)
(***************************************************************************)
\* the values observed at pos over all retained rows
ValuesObserved(pos) ==
    {ToKey(CharAt(sequences[i].seq, pos)) : i \in 1..Len(sequences)}

C14_MaxEntropyOfDataset ==
    query.op = "computePositionEntropy" =>
        \A pos \in Positions :
            query.result[pos].maxEntropy = Log2(Cardinality(ValuesObserved(pos)))

(***************************************************************************)
(* C15: for every value carried by at least one row of the matching set,   *)
(* computeConditionalMarginals returns the number of those rows, the mean  *)
(* of their fitness, the median (middle value, or the average of the two   *)
(* middle values) and the population standard deviation.                   *)
(***************************************************************************)
\* the k-th smallest element of a non-empty sequence of integers
KthSmallest(xs, k) ==
    CHOOSE v \in Range(xs) :
        /\ Cardinality({i \in 1..Len(xs) : xs[i] < v}) < k
        /\ Cardinality({i \in 1..Len(xs) : xs[i] <= v}) >= k
MedianOf(xs) ==
    LET n == Len(xs)
    IN IF n % 2 = 1 THEN Frac(KthSmallest(xs, (n + 1) \div 2), 1)
       ELSE Frac(KthSmallest(xs, n \div 2) + KthSmallest(xs, n \div 2 + 1), 2)
\* the square root of the mean squared deviation from the mean
DeviationOf(xs) ==
    LET n == Len(xs)
        sum == SumSeq(xs)
    IN Sqrt(Frac(SumSeq([i \in 1..n |-> (n * xs[i] - sum) * (n * xs[i] - sum)]),
                 n * n * n))
\* the rows of S that carry aa at pos, in ascending order
RowsCarrying(pos, aa, S) ==
    Ascending({id \in Range(DataOf(S)) :
                  ToKey(CharAt(sequences[id + 1].seq, pos)) = aa})

C15_MarginalStatistics ==
    query.op = "computeConditionalMarginals" =>
        \A aa \in ValuesObserved(query.pos) :
            LET xs == SlopesOf(RowsCarrying(query.pos, aa, query.S))
            IN xs # <<>> =>
                  \E i \in 1..Len(query.result) :
                      /\ query.result[i].aa = aa
                      /\ query.result[i].count = Len(xs)
                      /\ query.result[i].mean = Frac(SumSeq(xs), Len(xs))
                      /\ query.result[i].median = MedianOf(xs)
                      /\ query.result[i].std = DeviationOf(xs)

(***************************************************************************)
(* C16: after a mutator has broadcast, the fragment is the serialization   *)
(* of the filter map: filters= followed by one position:value pair per     *)
(* constrained position, in ascending position order, separated by commas; *)
(* no fragment when no position is constrained.                            *)
(***************************************************************************)
\* the pairs of the constrained positions among a set, each preceded by a
\* comma, in ascending position order
RECURSIVE PairsOf(_, _)
PairsOf(positions, filters) ==
    IF positions = {} THEN <<>>
    ELSE LET pos == CHOOSE p \in positions : \A other \in positions : p <= other
         IN <<",">> \o DecStr(pos) \o <<":">> \o encodeURIComponent(filters[pos])
               \o PairsOf(positions \ {pos}, filters)
Serialization(filters) ==
    LET constrained == {pos \in Positions : filters[pos] # NULL}
    IN IF constrained = {} THEN <<>>
       ELSE STR_filters \o <<"=">> \o Tail(PairsOf(constrained, filters))

Broadcast == last.op \in Mutators /\ calls # <<>>

RECURSIVE ValidPairsApplied(_, _, _)
ValidPairsApplied(filters, pairs, k) ==
    IF k > Len(pairs) THEN filters
    ELSE LET fields == Split(pairs[k], ":")
             aa == IF Len(fields) >= 2 THEN fields[2] ELSE UNDEFINED
             posNum == parseInt(fields[1])
             valid == /\ ~posNum.nan /\ posNum.v \in Positions
                      /\ aa # UNDEFINED /\ aa # <<>>
                      /\ decodeURIComponent(aa) # URI_ERROR
         IN ValidPairsApplied(
                IF valid THEN [filters EXCEPT ![posNum.v] = decodeURIComponent(aa)]
                ELSE filters,
                pairs, k + 1)

\* this step is a restore from a fragment with a filters entry
RestoreStep ==
    /\ last'.op \in {"init", "hashchange"}
    /\ ~NoFiltersEntry(last'.frag)
    /\ UNCHANGED <<rawData, dpVars>>
\* the filter map the pairs are applied to: the hashchange listener clears
\* it first, the initial loadHash takes it as it is
RestoreBase == IF last'.op = "hashchange" THEN EmptyFilters ELSE state.filters

C17_RestoreSkipsInvalidPairs ==
    [][RestoreStep =>
          /\ state'.filters =
                ValidPairsApplied(RestoreBase,
                                  Split(ParamsGet(last'.frag, STR_filters), ","), 1)
          /\ state'.filteredIndices = Resolution(state'.filters)]_vars

(***************************************************************************)
(* C18: every query accepts the empty concrete matching set and answers    *)
(* with an empty result: no entries, no rows, empty top and bottom, no     *)
(* slopes, and for each position an entropy record over no values.         *)
(***************************************************************************)
C18_EmptySetIsNormal ==
    query.op # "none" /\ query.S = <<>> =>
        /\ query.op \in {"computeConditionalMarginals", "computePairwiseStats",
                         "getFilteredSequences", "getAllSlopes"} =>
               query.result = <<>>
        /\ query.op = "getTopBottom" =>
               query.result = [top |-> <<>>, bottom |-> <<>>]
        /\ query.op = "computePositionEntropy" =>
               /\ DOMAIN query.result = Positions
               /\ \A pos \in Positions :
                     /\ query.result[pos].numAAs = 0
                     /\ query.result[pos].entropy = [counts |-> <<>>, totalCount |-> 0]

\* the entropy of the empty matching set has been computed on a dataset
\* with rows
C18_Witness ==
    /\ query.op = "computePositionEntropy"
    /\ query.S = <<>>
    /\ totalCount >= 2
    /\ DOMAIN query.result = Positions
    /\ query.result[9].numAAs = 0

(***************************************************************************)
(* C19: for a filter map with a constrained position, getFilteredIndices   *)
(* returns the identifiers of exactly the rows whose stored value equals   *)
(* the selected one at every constrained position, each once, all within   *)
(* 0..N-1, and visiting the positions in another order gives the same set. *)
(***************************************************************************)
\* the rows whose stored values agree with the filter map
RowsMatching(filters) ==
    {id \in 0..(Len(sequences) - 1) :
        \A pos \in Positions :
            filters[pos] # NULL => StoredValue(sequences[id + 1], pos) = filters[pos]}
\* the orders in which the four positions can be visited
VisitOrders ==
    {order \in [1..Len(VARIABLE_POSITIONS) -> Positions] :
        \A i, j \in DOMAIN order : i # j => order[i] # order[j]}

C19_ExactIntersection ==
    Resolved /\ query.filters # EmptyFilters =>
        /\ Range(query.result) = RowsMatching(query.filters)
        /\ Distinct(query.result)
        /\ Range(query.result) \subseteq 0..(Len(sequences) - 1)
        /\ \A order \in VisitOrders :
              Range(VisitPositions(order, query.filters, 1, NULLSET))
                  = Range(query.result)

(***************************************************************************)
(* C20: after init every retained row is, at each position, in the bucket  *)
(* keyed by its own stored value (the empty string for a row shorter than  *)
(* the offset), so that a filter on that value matches the row.            *)
(***************************************************************************)
C20_IndexedUnderStoredValue ==
    phase = "indexed" =>
        \A i \in 1..Len(sequences), pos \in Positions :
            LET value == StoredValue(sequences[i], pos)
            IN /\ value \in DOMAIN indexByPosition[pos]
               /\ Has(indexByPosition[pos][value], i - 1)
               /\ Has(getFilteredIndices([EmptyFilters EXCEPT ![pos] = value]), i - 1)

(***************************************************************************)
(* C21: init retains exactly the raw rows with a non-empty sequence and a  *)
(* fitness that is present and parses as a number, and completes whatever  *)
(* the other rows are; a retained row gets as identifier the number of     *)
(* rows retained before it.                                                *)
(***************************************************************************)
\* a raw row with a non-empty sequence and a numeric fitness
WellFormed(row) == row.seq # EMPTY /\ row.slope.k = "num"
\* the number of well-formed rows before raw row j (1-based)
RetainedBefore(j) == Cardinality({k \in 1..(j - 1) : WellFormed(rawData[k])})

C21_DropsExactlyMalformed ==
    phase = "indexed" =>
        /\ Len(sequences) = Cardinality({j \in 1..Len(rawData) : WellFormed(rawData[j])})
        /\ \A j \in 1..Len(rawData) :
              WellFormed(rawData[j]) =>
                  LET id == RetainedBefore(j)
                  IN /\ sequences[id + 1].seq = rawData[j].seq
                     /\ sequences[id + 1].slope = rawData[j].slope.v
                     /\ \A pos \in Positions :
                           \E aa \in DOMAIN indexByPosition[pos] :
                               Has(indexByPosition[pos][aa], id)

\* rows of each malformed kind were dropped between two retained rows
C21_Witness ==
    /\ phase = "indexed"
    /\ Len(rawData) = 4
    /\ rawData[1] = RowC5
    /\ rawData[2] \in {RowNoSeq, RowNoSlope}
    /\ rawData[3] = RowBadSlope
    /\ rawData[4] = RowK3
    /\ Len(sequences) = 2
    /\ sequences[2].slope = 3

(***************************************************************************)
(* C22: after init, also a second one on another dataset, minSlope and     *)
(* maxSlope are the least and the greatest fitness of the rows that init   *)
(* retained, negative values included.                                     *)
(***************************************************************************)
LeastOf(xs) == CHOOSE v \in Range(xs) : \A w \in Range(xs) : v <= w
GreatestOf(xs) == CHOOSE v \in Range(xs) : \A w \in Range(xs) : v >= w

C22_ExtremesOfRetainedRows ==
    phase = "indexed" /\ totalCount > 0 =>
        /\ minSlope = LeastOf(SlopesOf(AllIndices))
        /\ maxSlope = GreatestOf(SlopesOf(AllIndices))

(***************************************************************************)
(* C23: computePairwiseStats(posA, posB, S) has one entry for each pair of *)
(* values carried by a row of S (of the dataset when S is null), with the  *)
(* number of those rows and the mean of their fitness; no other entries;   *)
(* the counts sum to the size of S.                                        *)
(***************************************************************************)
\* the pair of values row id carries at posA and posB, an absent offset
\* giving the empty string
Combination(id, posA, posB) ==
    <<OrEmpty(CharAt(sequences[id + 1].seq, posA)),
      OrEmpty(CharAt(sequences[id + 1].seq, posB))>>
\* the rows of S that carry the combination, in ascending order
RowsWith(combination, posA, posB, S) ==
    Ascending({id \in Range(DataOf(S)) : Combination(id, posA, posB) = combination})

C23_PairwiseStatistics ==
    query.op = "computePairwiseStats" =>
        LET entries == query.result
            combinations == {Combination(id, query.posA, query.posB) :
                                id \in Range(DataOf(query.S))}
        IN /\ {<<entries[i].aaA, entries[i].aaB>> : i \in 1..Len(entries)} = combinations
           /\ Len(entries) = Cardinality(combinations)
           /\ \A i \in 1..Len(entries) :
                 LET rows == RowsWith(<<entries[i].aaA, entries[i].aaB>>,
                                      query.posA, query.posB, query.S)
                 IN /\ entries[i].count = Len(rows)
                    /\ entries[i].mean = Frac(SumSeq(SlopesOf(rows)), Len(rows))
           /\ CountSum(entries) = SizeOf(query.S)

\* a combination with an absent offset, carried by two rows of a concrete
\* matching set that leaves a third row out
C23_Witness ==
    /\ query.op = "computePairwiseStats"
    /\ query.S # NULLSET
    /\ Len(query.S) = 3
    /\ totalCount = 4
    /\ \E i \in 1..Len(query.result) :
          /\ query.result[i].aaB = EMPTY
          /\ query.result[i].aaA # EMPTY
          /\ query.result[i].count = 2
    /\ Len(query.result) = 2

(***************************************************************************)
(* C24: getFilteredSequences returns rows of the matching set only (of the *)
(* dataset when it is null), each at most once; with hideStops no returned *)
(* row has the stop symbol at one of the four positions; without hideStops *)
(* and with an empty search text the rows returned are a permutation of    *)
(* the matching set.                                                       *)
(***************************************************************************)
\* row id has the stop symbol at one of the four positions
CarriesStop(id) == \E pos \in Positions : CharAt(sequences[id + 1].seq, pos) = STOP

C24_TableRows ==
    query.op = "getFilteredSequences" =>
        /\ Range(query.result) \subseteq Range(DataOf(query.S))
        /\ Distinct(query.result)
        /\ query.hideStops => \A id \in Range(query.result) : ~CarriesStop(id)
        /\ ~query.hideStops /\ query.searchQuery = EMPTY =>
               /\ Range(query.result) = Range(DataOf(query.S))
               /\ Len(query.result) = Len(DataOf(query.S))

\* with hideStops, a row with a stop symbol was left out of a concrete
\* matching set and the other rows were returned
C24_Witness ==
    /\ query.op = "getFilteredSequences"
    /\ query.hideStops
    /\ query.searchQuery = EMPTY
    /\ query.S # NULLSET
    /\ \E id \in Range(query.S) : CarriesStop(id)
    /\ Len(query.result) >= 2
    /\ Len(query.result) < Len(query.S)
    /\ Len(query.S) < totalCount

(***************************************************************************)
(* C25: getTopBottom, given the matching set of getFilteredIndices (or     *)
(* null), orders the rows by descending fitness and, among rows of equal   *)
(* fitness, by ascending identifier: top is the beginning of that order    *)
(* and bottom, read backwards, its end.                                    *)
(***************************************************************************)
\* row a comes before row b: higher fitness, or equal fitness and loaded
\* earlier
Precedes(a, b) ==
    \/ sequences[a + 1].slope > sequences[b + 1].slope
    \/ sequences[a + 1].slope = sequences[b + 1].slope /\ a < b
\* the rows of a set in that order
RECURSIVE Ranked(_)
Ranked(ids) ==
    IF ids = {} THEN <<>>
    ELSE LET first == CHOOSE a \in ids : \A b \in ids \ {a} : Precedes(a, b)
         IN <<first>> \o Ranked(ids \ {first})

C25_TiesInLoadOrder ==
    query.op = "getTopBottom" /\ "filters" \in DOMAIN query =>
        LET order == Ranked(Range(DataOf(query.S)))
            top == query.result.top
            bottom == query.result.bottom
        IN /\ top = SubSeq(order, 1, Len(top))
           /\ Reverse(bottom) = SubSeq(order, Len(order) - Len(bottom) + 1, Len(order))

\* two rows of equal fitness, matched by a filter that leaves another row
\* out, are both in top
C25_Witness ==
    /\ query.op = "getTopBottom"
    /\ "filters" \in DOMAIN query
    /\ query.filters # EmptyFilters
    /\ Len(query.S) < totalCount
    /\ Len(query.result.top) = 2
    /\ query.result.top[1] < query.result.top[2]
    /\ sequences[query.result.top[1] + 1].slope = sequences[query.result.top[2] + 1].slope
    /\ sequences[query.result.top[1] + 1].seq # sequences[query.result.top[2] + 1].seq

(***************************************************************************)
(* C29: for every n >= 0, top and bottom of getTopBottom(n, S) have        *)
(* min(n, |S|) rows each (|S| being totalCount when S is null); for n = 0  *)
(* both are empty.                                                         *)
(***************************************************************************)
C29_ListLengths ==
    query.op = "getTopBottom" =>
        /\ Len(query.result.top) = Min(query.n, SizeOf(query.S))
        /\ Len(query.result.bottom) = Min(query.n, SizeOf(query.S))

(***************************************************************************)
(* C30: while the CSV is loading or parsed but not yet indexed, no handler *)
(* has resolved a filter map and no subscriber has been called.            *)
(***************************************************************************)
\* loadHash on this fragment reaches its call of getFilteredIndices
ReachesResolution(text) ==
    /\ ~NoFiltersEntry(text)
    /\ ~ApplyPairs(EmptyFilters, Split(ParamsGet(text, STR_filters), ","), 1).threw
\* the handler that ran last called getFilteredIndices
ResolutionRan ==
    \/ last.op \in {"setFilter", "clearFilter"}
    \/ last.op \in {"init", "hashchange"} /\ ReachesResolution(last.frag)

C30_NothingBeforeIndex ==
    phase \in {"loading", "parsed"} =>
        /\ ~ResolutionRan
        /\ \A i \in 1..Len(calls) : calls[i].fn \notin Range(listeners)

(***************************************************************************)
(* C26: a mutator and its broadcast are one unit: no mutator is entered    *)
(* while notify is running, so broadcasts never nest, and every subscriber *)
(* of one broadcast is called with the state that the mutator left.        *)
(***************************************************************************)
C26_BroadcastsNeverNest ==
    /\ Len(stack) <= 1
    /\ stack # <<>> =>
          /\ Len(calls) = stack[1].next - 1
          /\ \A i \in 1..Len(calls) :
                calls[i] = Called(listeners[i], state)

\* setColorScale has called the five subscribers, updateColors last, and
\* has returned
C26_Witness ==
    /\ stack = <<>>
    /\ last.op = "setColorScale"
    /\ state.colorScale = "linear"
    /\ Len(calls) = 6
    /\ calls[5] = Called("VizStructure.updateColors", state)
    /\ calls[6].fn = "saveHash"

C28_StaleReloadsDiscarded ==
    [][displayed' >= displayed]_vars

====
